---- MODULE Spec2Model ----
(***************************************************************************)
(* A model of the humanesort crate (src/src/lib.rs): the grapheme-aware    *)
(* TokenIterator, the comparator humane_order, and the HumaneString        *)
(* wrapper with its Ord / PartialOrd / PartialEq implementations.          *)
(*                                                                         *)
(* A Rust &str is modelled as its UTF-8 byte sequence (a sequence of       *)
(* numbers 0..255), because the tokenizer slices the string by byte        *)
(* offsets (&self.string[first_index..index+1]).                           *)
(***************************************************************************)
EXTENDS Integers, Sequences, FiniteSets, TLC

\* ------------------------------------------------------------------ bounds

\* Number of pieces (see Pieces) an input string is concatenated from.
MaxLen == 2

\* Number of elements of a list handed to sort().
MaxList == 4

\* ------------------------------------------------------- UTF-8 and slicing

Min(x, y) == IF x <= y THEN x ELSE y

\* Width in bytes of the UTF-8 scalar whose leading byte is b.
Utf8Width(b) ==
    IF b < 128 THEN 1
    ELSE IF b < 224 THEN 2
    ELSE IF b < 240 THEN 3
    ELSE 4

\* str::is_char_boundary(idx), idx a 0-based byte offset: the ends of the
\* string are boundaries, and so is every byte that is no continuation
\* byte (128..191).
is_char_boundary(s, idx) ==
    \/ idx = 0
    \/ idx = Len(s)
    \/ /\ idx > 0
       /\ idx < Len(s)
       /\ ~(s[idx + 1] >= 128 /\ s[idx + 1] < 192)

\* &s[a..b] on a str, a and b 0-based byte offsets: panics unless
\* a <= b <= len and both offsets are char boundaries.
Slice(s, a, b) ==
    IF a <= b /\ b <= Len(s) /\ is_char_boundary(s, a) /\ is_char_boundary(s, b)
    THEN [ok |-> TRUE, text |-> SubSeq(s, a + 1, b)]
    ELSE [ok |-> FALSE, text |-> <<>>]

\* ------------------------------------------------- grapheme segmentation

\* The scalar starting at 1-based byte position p is a combining mark of
\* the block U+0300..U+036F (Grapheme_Extend): UTF-8 CC 80 .. CD AF.
IsExtend(s, p) ==
    /\ p + 1 <= Len(s)
    /\ \/ s[p] = 204
       \/ s[p] = 205 /\ s[p + 1] <= 175

\* End (1-based, exclusive) of the cluster whose scalars so far end before
\* p: Extend scalars never start a cluster after another scalar (GB9).
RECURSIVE ExtendEnd(_, _)
ExtendEnd(s, p) ==
    IF p <= Len(s) /\ IsExtend(s, p)
    THEN ExtendEnd(s, p + Utf8Width(s[p]))
    ELSE p

\* UnicodeSegmentation::grapheme_indices(s, true) from 1-based position p
\* on: the sequence of (byte offset, cluster) pairs, offsets 0-based.
RECURSIVE GraphemesFrom(_, _)
GraphemesFrom(s, p) ==
    IF p > Len(s) THEN <<>>
    ELSE LET e == ExtendEnd(s, p + Utf8Width(s[p]))
         IN  <<[i |-> p - 1, s |-> SubSeq(s, p, e - 1)]>> \o GraphemesFrom(s, e)

grapheme_indices(s) == GraphemesFrom(s, 1)

\* ------------------------------------------------------ integer parsing

\* usize::MAX / u64::MAX = 18446744073709551615 as decimal digits (64-bit
\* target); values are kept as canonical digit sequences, which are in
\* bijection with the naturals, because they exceed the integers of TLC.
UsizeMaxDigits == <<1, 8, 4, 4, 6, 7, 4, 4, 0, 7, 3, 7, 0, 9, 5, 5, 1, 6, 1, 5>>

IsDigitByte(b) == b >= 48 /\ b <= 57

\* Drop the leading zero digits: the canonical form of a value (0 is <<>>).
RECURSIVE StripZeros(_)
StripZeros(d) ==
    IF d # <<>> /\ Head(d) = 0 THEN StripZeros(Tail(d)) ELSE d

\* Lexicographic comparison of two integer sequences (slice / str Ord):
\* "Less", "Equal" or "Greater"; a proper prefix is Less.
RECURSIVE LexCmp(_, _)
LexCmp(x, y) ==
    IF x = <<>> /\ y = <<>> THEN "Equal"
    ELSE IF x = <<>> THEN "Less"
    ELSE IF y = <<>> THEN "Greater"
    ELSE IF Head(x) < Head(y) THEN "Less"
    ELSE IF Head(x) > Head(y) THEN "Greater"
    ELSE LexCmp(Tail(x), Tail(y))

\* Ord::cmp on two parsed integers, given as canonical digit sequences.
NatCmp(x, y) ==
    IF Len(x) < Len(y) THEN "Less"
    ELSE IF Len(x) > Len(y) THEN "Greater"
    ELSE LexCmp(x, y)

\* str::parse::<u64>() / ::<usize>(): an optional leading '+', then one or
\* more ASCII digits; Err on an empty digit string, on any other byte, and
\* when the value exceeds the type's maximum.
Parse(x) ==
    LET body == IF x # <<>> /\ Head(x) = 43 THEN Tail(x) ELSE x
        val  == StripZeros([k \in 1..Len(body) |-> body[k] - 48])
    IN  IF body = <<>> \/ \E k \in 1..Len(body) : ~IsDigitByte(body[k])
        THEN [ok |-> FALSE, val |-> <<>>]
        ELSE IF NatCmp(val, UsizeMaxDigits) = "Greater"
        THEN [ok |-> FALSE, val |-> <<>>]
        ELSE [ok |-> TRUE, val |-> val]

\* ---------------------------------------------------------- classifiers

\* sorting_type looking at the first byte only.
sorting_type_first_byte(x) ==
    IF x # <<>> /\ IsDigitByte(x[1]) THEN "Numeric" ELSE "NonNumeric"

\* fn sorting_type(x: &str) -> SortingType
sorting_type(x) == IF Parse(x).ok THEN "Numeric" ELSE "NonNumeric"

\* char::is_numeric on the scalar starting at 1-based position p (of the
\* scalars that occur here only the ASCII digits are numeric).
RECURSIVE AllCharsNumeric(_, _)
AllCharsNumeric(x, p) ==
    IF p > Len(x) THEN TRUE
    ELSE IsDigitByte(x[p]) /\ AllCharsNumeric(x, p + Utf8Width(x[p]))

\* The closure of tests::it_works: x.chars().all(char::is_numeric).
is_numeric_closure(x) ==
    IF AllCharsNumeric(x, 1) THEN "Numeric" ELSE "NonNumeric"

Classifiers == {"sorting_type", "is_numeric_closure"}

\* (self.token_type)(x) for the boxed closure named f.
token_type(f, x) ==
    IF f = "sorting_type" THEN sorting_type(x) ELSE is_numeric_closure(x)

\* ------------------------------------------------------- TokenIterator

\* Option<(&str, T)> returned by next(), plus the iterator position after
\* the call; kind "Panic" stands for a call that unwinds instead.
NoToken(kind, pos) == [kind |-> kind, text |-> <<>>, tag |-> "None", pos |-> pos]

\* Some((&self.string[first_index..end], tag)): the slice panics when end
\* is no char boundary of the string.
SomeToken(s, first_index, end, tag, pos) ==
    LET sl == Slice(s, first_index, end)
    IN  IF sl.ok
        THEN [kind |-> "Some", text |-> sl.text, tag |-> tag, pos |-> pos]
        ELSE NoToken("Panic", pos)

\* The loop of TokenIterator::next. G is the grapheme sequence of s, k the
\* 1-based number of the cluster held in `grapheme` (the k-th cluster is
\* the last one taken from grapheme_iterator), G[k].i is `index`.
RECURSIVE NextLoop(_, _, _, _, _)
NextLoop(s, f, G, first_index, k) ==
    LET grapheme     == G[k].s
        index        == G[k].i
        current_type == token_type(f, grapheme)
    IN  IF k = Len(G)
        THEN SomeToken(s, first_index, index + 1, token_type(f, grapheme), k)
        ELSE IF current_type # token_type(f, G[k + 1].s)
        THEN SomeToken(s, first_index, index + 1, current_type, k)
        ELSE NextLoop(s, f, G, first_index, k + 1)

\* TokenIterator::new(s, func): no cluster taken from grapheme_iterator yet.
TokenIterator_new == 0

\* TokenIterator::next leaving the last cluster of a token of several
\* clusters in grapheme_iterator, so that the next call reads it again.
TokenIterator_next_rereading(s, f, pos) ==
    IF pos >= Len(grapheme_indices(s)) THEN NoToken("None", pos)
    ELSE CHOOSE v \in
           { [r EXCEPT !.pos = IF r.pos > pos + 1 THEN r.pos - 1 ELSE r.pos]
             : r \in {NextLoop(s, f, grapheme_indices(s),
                               grapheme_indices(s)[pos + 1].i, pos + 1)} } : TRUE

\* TokenIterator::next on the iterator over s with classifier f that has
\* taken pos clusters from grapheme_iterator. (G is bound through a
\* one-element set, so that the segmentation is evaluated once.)
TokenIterator_next(s, f, pos) ==
    CHOOSE v \in { IF pos >= Len(G) THEN NoToken("None", pos)
                   ELSE NextLoop(s, f, G, G[pos + 1].i, pos + 1)
                   : G \in {grapheme_indices(s)} } : TRUE

\* --------------------------------------------------------- humane_order

\* match_tokens with the Numeric pair compared as text, not by value.
match_tokens_textual(ours, theirs) ==
    IF ours.tag = "Numeric" /\ theirs.tag = "NonNumeric" THEN "Less"
    ELSE IF ours.tag = "NonNumeric" /\ theirs.tag = "Numeric" THEN "Greater"
    ELSE LexCmp(ours.text, theirs.text)

\* match_tokens falling back to the byte order of the texts when a Numeric
\* text does not parse, instead of unwinding.
match_tokens_fallback(ours, theirs) ==
    IF ours.tag = "Numeric" /\ theirs.tag = "NonNumeric" THEN "Less"
    ELSE IF ours.tag = "NonNumeric" /\ theirs.tag = "Numeric" THEN "Greater"
    ELSE IF /\ ours.tag = "Numeric"
            /\ theirs.tag = "Numeric"
            /\ Parse(ours.text).ok
            /\ Parse(theirs.text).ok
    THEN NatCmp(Parse(ours.text).val, Parse(theirs.text).val)
    ELSE LexCmp(ours.text, theirs.text)

\* The inner match of humane_order on the two tags: the verdict of one
\* token pair; "Equal" lets the loop go on, "panic" is a failed unwrap().
match_tokens(ours, theirs) ==
    IF ours.tag = "Numeric" /\ theirs.tag = "NonNumeric" THEN "Less"
    ELSE IF ours.tag = "NonNumeric" /\ theirs.tag = "Numeric" THEN "Greater"
    ELSE IF ours.tag = "Numeric" /\ theirs.tag = "Numeric"
    THEN CHOOSE c \in { IF ~a.ok \/ ~b.ok THEN "panic" ELSE NatCmp(a.val, b.val)
                        : a \in {Parse(ours.text)}, b \in {Parse(theirs.text)} } : TRUE
    ELSE LexCmp(ours.text, theirs.text)

\* The outer match of humane_order on the two Options, both next() calls
\* having returned.
match_options(ours, theirs) ==
    IF ours.kind = "None" /\ theirs.kind = "None" THEN "Equal"
    ELSE IF ours.kind = "None" THEN "Less"
    ELSE IF theirs.kind = "None" THEN "Greater"
    ELSE [Less |-> "Less", Greater |-> "Greater", panic |-> "panic",
          Equal |-> "continue"][match_tokens(ours, theirs)]

\* One iteration of the loop of humane_order: both next() calls (ours
\* first; a panic in it unwinds before theirs is called) and the match.
\* verdict "continue" stands for falling through to the next iteration.
loop_body(a, b, sp, op) ==
    CHOOSE r \in
      { IF ours.kind = "Panic"
        THEN [verdict |-> "panic", ours |-> ours, theirs |-> NoToken("NotCalled", op)]
        ELSE IF theirs.kind = "Panic"
        THEN [verdict |-> "panic", ours |-> ours, theirs |-> theirs]
        ELSE [verdict |-> match_options(ours, theirs), ours |-> ours, theirs |-> theirs]
        : ours   \in {TokenIterator_next(a, "sorting_type", sp)},
          theirs \in {TokenIterator_next(b, "sorting_type", op)} } : TRUE

\* The loop of humane_order from the iteration on at which the iterators
\* have taken sp and op clusters. (r is bound through a one-element set,
\* so that the iteration is evaluated once.)
RECURSIVE humane_order_loop(_, _, _, _)
humane_order_loop(a, b, sp, op) ==
    CHOOSE v \in { IF r.verdict = "continue"
                   THEN humane_order_loop(a, b, r.ours.pos, r.theirs.pos)
                   ELSE r.verdict : r \in {loop_body(a, b, sp, op)} } : TRUE

\* pub fn humane_order(this, other) -> Ordering, run to its end: "Less",
\* "Equal", "Greater", or "panic" when the call unwinds.
humane_order(a, b) == humane_order_loop(a, b, TokenIterator_new, TokenIterator_new)

\* --------------------------------------------------------- HumaneString

\* HumaneString::new(s)
HumaneString_new(s) == [data |-> s]

\* #[derive(PartialEq)] on HumaneString: equality of the data field.
eq(x, y) == x.data = y.data

\* impl Ord for HumaneString
cmp(x, y) == humane_order(x.data, y.data)

\* impl PartialOrd for HumaneString: Some(self.cmp(other)); ord "panic"
\* stands for a cmp that unwinds.
partial_cmp(x, y) == [some |-> TRUE, ord |-> cmp(x, y)]

\* PartialOrd::lt, the is_less of slice::sort: "true", "false" or "panic".
lt(x, y) ==
    [Less |-> "true", Equal |-> "false", Greater |-> "false", panic |-> "panic"]
        [partial_cmp(x, y).ord]

\* insert_head of the insertion sort that slice::sort runs on short
\* slices: tmp goes behind the leading elements of the sorted rest that
\* are less than it. passed holds those leading elements.
RECURSIVE insert_head(_, _, _)
insert_head(passed, tmp, rest) ==
    IF rest = <<>> THEN [panic |-> FALSE, list |-> passed \o <<tmp>>]
    ELSE CHOOSE v \in
           { IF l = "panic" THEN [panic |-> TRUE, list |-> <<>>]
             ELSE IF l = "true"
             THEN insert_head(Append(passed, Head(rest)), tmp, Tail(rest))
             ELSE [panic |-> FALSE, list |-> passed \o <<tmp>> \o rest]
             : l \in {lt(Head(rest), tmp)} } : TRUE

\* humans.sort(): the elements are inserted from the right end on; a
\* panic of a comparison ends the sort.
RECURSIVE sort(_)
sort(v) ==
    IF Len(v) <= 1 THEN [panic |-> FALSE, list |-> v]
    ELSE CHOOSE r \in
           { IF t.panic THEN t ELSE insert_head(<<>>, Head(v), t.list)
             : t \in {sort(Tail(v))} } : TRUE

\* ---------------------------------------------------------------- inputs

\* The pieces input strings are concatenated from, as UTF-8 bytes:
\* "0", "1", "2", "a", U+0301 (combining acute accent, 2 bytes: alone it
\* is a cluster of its own, behind another scalar it joins that scalar's
\* cluster) and "18446744073709551616" (usize::MAX + 1).
Pieces ==
    { <<48>>, <<49>>, <<50>>, <<97>>, <<204, 129>>,
      <<49, 56, 52, 52, 54, 55, 52, 52, 48, 55, 51, 55, 48, 57, 53, 53, 49, 54, 49, 54>> }

\* All concatenations of at most n pieces.
RECURSIVE StringsUpTo(_)
StringsUpTo(n) ==
    IF n = 0 THEN {<<>>}
    ELSE LET shorter == StringsUpTo(n - 1)
         IN  shorter \cup {s \o p : s \in shorter, p \in Pieces}

Strings == StringsUpTo(MaxLen)

\* The strings sorted lists are made of: those of tests::sort ("11", "2",
\* "a", "1"), a lone U+0301 and "18446744073709551616".
SortPool ==
    { <<49, 49>>, <<50>>, <<97>>, <<49>>, <<204, 129>>,
      <<49, 56, 52, 52, 54, 55, 52, 52, 48, 55, 51, 55, 48, 57, 53, 53, 49, 54, 49, 54>> }

RECURSIVE ListsUpTo(_)
ListsUpTo(n) ==
    IF n = 0 THEN {<<>>}
    ELSE LET shorter == ListsUpTo(n - 1)
         IN  shorter \cup {<<HumaneString_new(s)>> \o l : s \in SortPool, l \in shorter}

\* ----------------------------------------------------------------- state

VARIABLES
    call,              \* the running operation: "idle", "humane_order", "tokenize", "sort"
    this,              \* humane_order: the first argument
    other,             \* humane_order: the second argument
    self_tokens,       \* humane_order: clusters taken by the iterator over this
    other_tokens,      \* humane_order: clusters taken by the iterator over other
    pulled,            \* humane_order: the (ours, theirs) results of the iterations so far
    verdict,           \* humane_order: "running", an Ordering, or "panic"
    string,            \* tokenize: TokenIterator.string
    classifier,        \* tokenize: TokenIterator.token_type
    grapheme_iterator, \* tokenize: clusters taken from TokenIterator.grapheme_iterator
    yielded,           \* tokenize: the tokens next() has returned so far
    status,            \* tokenize: "running", "done" (next() returned None) or "panic"
    humans,            \* sort: the list before sort()
    sorted             \* sort: what sort() left, or its panic

vars == <<call, this, other, self_tokens, other_tokens, pulled, verdict,
          string, classifier, grapheme_iterator, yielded, status, humans, sorted>>

cmpVars  == <<this, other, self_tokens, other_tokens, pulled, verdict>>
tokVars  == <<string, classifier, grapheme_iterator, yielded, status>>
sortVars == <<humans, sorted>>

Init ==
    /\ call = "idle"
    /\ this = <<>>
    /\ other = <<>>
    /\ self_tokens = 0
    /\ other_tokens = 0
    /\ pulled = <<>>
    /\ verdict = "none"
    /\ string = <<>>
    /\ classifier = "sorting_type"
    /\ grapheme_iterator = 0
    /\ yielded = <<>>
    /\ status = "none"
    /\ humans = <<>>
    /\ sorted = [panic |-> FALSE, list |-> <<>>]

\* A caller enters humane_order(a, b): the two TokenIterator::new calls.
CallHumaneOrder ==
    /\ call = "idle"
    /\ \E a \in Strings, b \in Strings :
          /\ this' = a
          /\ other' = b
    /\ call' = "humane_order"
    /\ self_tokens' = TokenIterator_new
    /\ other_tokens' = TokenIterator_new
    /\ pulled' = <<>>
    /\ verdict' = "running"
    /\ UNCHANGED <<tokVars, sortVars>>

\* One iteration of the loop of humane_order; it returns, panics or goes on.
LoopStep ==
    /\ call = "humane_order"
    /\ verdict = "running"
    /\ \E r \in {loop_body(this, other, self_tokens, other_tokens)} :
           /\ self_tokens' = r.ours.pos
           /\ other_tokens' = r.theirs.pos
           /\ pulled' = Append(pulled, <<r.ours, r.theirs>>)
           /\ verdict' = IF r.verdict = "continue" THEN "running" ELSE r.verdict
    /\ UNCHANGED <<call, this, other, tokVars, sortVars>>

\* A caller builds a TokenIterator over s with one of the classifiers.
CallTokenize ==
    /\ call = "idle"
    /\ \E s \in Strings, f \in Classifiers :
          /\ string' = s
          /\ classifier' = f
    /\ call' = "tokenize"
    /\ grapheme_iterator' = TokenIterator_new
    /\ yielded' = <<>>
    /\ status' = "running"
    /\ UNCHANGED <<cmpVars, sortVars>>

\* One call of TokenIterator::next by the caller.
TokenizeNext ==
    /\ call = "tokenize"
    /\ status = "running"
    /\ \E r \in {TokenIterator_next(string, classifier, grapheme_iterator)} :
           /\ grapheme_iterator' = r.pos
           /\ yielded' = IF r.kind = "Some"
                         THEN Append(yielded, [text |-> r.text, tag |-> r.tag])
                         ELSE yielded
           /\ status' = IF r.kind = "Some" THEN "running"
                        ELSE IF r.kind = "None" THEN "done"
                        ELSE "panic"
    /\ UNCHANGED <<call, string, classifier, cmpVars, sortVars>>

\* tests::sort: a list of HumaneStrings is built and sorted.
CallSort ==
    /\ call = "idle"
    /\ \E l \in ListsUpTo(MaxList) :
          /\ humans' = l
          /\ sorted' = sort(l)
    /\ call' = "sort"
    /\ UNCHANGED <<cmpVars, tokVars>>

Next ==
    \/ CallHumaneOrder
    \/ LoopStep
    \/ CallTokenize
    \/ TokenizeNext
    \/ CallSort

Spec == Init /\ [][Next]_vars

\* ------------------------------------------------- vocabulary of the claims

Finished == call = "humane_order" /\ verdict \notin {"none", "running"}

\* The clusters of s, without their offsets.
Clusters(s) ==
    LET G == grapheme_indices(s)
    IN  [k \in 1..Len(G) |-> G[k].s]

\* g is the one-byte cluster of an ASCII digit.
IsDigitCluster(g) == Len(g) = 1 /\ g[1] >= 48 /\ g[1] <= 57

\* The digits text (all ASCII digits) stand for a value above usize::MAX:
\* without its leading zeros it is longer than the maximum's 20 digits, or
\* as long and behind it in the digit-wise order.
ExceedsUsize(text) ==
    LET d == StripZeros([k \in 1..Len(text) |-> text[k] - 48])
    IN  \/ Len(d) > Len(UsizeMaxDigits)
        \/ /\ Len(d) = Len(UsizeMaxDigits)
           /\ \E k \in 1..Len(d) :
                 /\ d[k] > UsizeMaxDigits[k]
                 /\ \A j \in 1..(k - 1) : d[j] = UsizeMaxDigits[j]

\* The texts of a sequence of tokens, concatenated.
RECURSIVE ConcatTexts(_)
ConcatTexts(toks) ==
    IF toks = <<>> THEN <<>> ELSE Head(toks).text \o ConcatTexts(Tail(toks))

\* The number of maximal runs of equally classified clusters of s.
NumRuns(f, s) ==
    LET C == Clusters(s)
    IN  IF C = <<>> THEN 0
        ELSE 1 + Cardinality({k \in 2..Len(C) :
                                 token_type(f, C[k]) # token_type(f, C[k - 1])})

\* The i-th pulled pair is tied: two tokens of the same tag, with equal
\* values (Numeric) or equal texts (NonNumeric).
Tied(pair) ==
    /\ pair[1].kind = "Some"
    /\ pair[2].kind = "Some"
    /\ pair[1].tag = pair[2].tag
    /\ IF pair[1].tag = "Numeric"
       THEN /\ Parse(pair[1].text).ok
            /\ Parse(pair[2].text).ok
            /\ Parse(pair[1].text).val = Parse(pair[2].text).val
       ELSE pair[1].text = pair[2].text

\* ------------------------------------------------------------------ C2

\* The per-pair policy of the specification's table, for a pair of tokens
\* whose numeric texts parse: the Ordering of the pair.
PolicyOrdering(ours, theirs) ==
    CASE ours.tag = "Numeric" /\ theirs.tag = "NonNumeric" -> "Less"
      [] ours.tag = "NonNumeric" /\ theirs.tag = "Numeric" -> "Greater"
      [] ours.tag = "Numeric" /\ theirs.tag = "Numeric" ->
            NatCmp(Parse(ours.text).val, Parse(theirs.text).val)
      [] ours.tag = "NonNumeric" /\ theirs.tag = "NonNumeric" ->
            LexCmp(ours.text, theirs.text)

\* C2: humane_order walks the two token sequences in lock-step: every pair
\* pulled before the last one is tied, and the last pair pulled, when both
\* sides yielded a token (whose numeric texts parse), decides by the
\* policy: Numeric before NonNumeric, values for two Numeric tokens, byte
\* order for two NonNumeric tokens; a tied pair lets the walk go on, any
\* other verdict is returned at once.
C2_PairPolicy ==
    (call = "humane_order" /\ pulled # <<>>) =>
        LET n    == Len(pulled)
            last == pulled[n]
        IN  /\ \A i \in 1..(n - 1) : Tied(pulled[i])
            /\ (/\ last[1].kind = "Some"
                /\ last[2].kind = "Some"
                /\ (last[1].tag = "Numeric" => Parse(last[1].text).ok)
                /\ (last[2].tag = "Numeric" => Parse(last[2].text).ok))
               => LET o == PolicyOrdering(last[1], last[2])
                  IN  IF o = "Equal" THEN verdict = "running" ELSE verdict = o

\* A walk that tied on a first NonNumeric pair and returned Less on a
\* second pair of Numeric tokens ("a1" against "a2").
C2_Witness ==
    /\ call = "humane_order"
    /\ Len(pulled) = 2
    /\ pulled[1][1].tag = "NonNumeric"
    /\ Tied(pulled[1])
    /\ pulled[2][1].tag = "Numeric"
    /\ pulled[2][2].tag = "Numeric"
    /\ verdict = "Less"

\* ------------------------------------------------------------------ C4

\* s holds a run of consecutive digit clusters whose value exceeds
\* usize::MAX (then so does the maximal digit run around it).
HasOversizedRun(s) ==
    LET C == Clusters(s)
    IN  \E i \in 1..Len(C) : \E j \in i..Len(C) :
           /\ \A k \in i..j : IsDigitCluster(C[k])
           /\ ExceedsUsize([k \in 1..(j - i + 1) |-> C[i + k - 1][1]])

\* tok is a yielded Numeric token whose value exceeds usize::MAX.
Oversized(tok) ==
    /\ tok.kind = "Some"
    /\ tok.tag = "Numeric"
    /\ ExceedsUsize(tok.text)

\* C4 as claimed: whenever either argument of humane_order holds a digit
\* run above usize::MAX, the comparison panics and returns no Ordering,
\* whatever the other string holds at that position and wherever the run is.
C4_AnyOversizedPanics ==
    (Finished /\ (HasOversizedRun(this) \/ HasOversizedRun(other)))
        => verdict = "panic"

\* C4 as amended: the comparison panics exactly when the walk reaches a
\* pair of two Numeric tokens of which one exceeds usize::MAX (or a next()
\* call panics); an oversized Numeric token paired with a NonNumeric token
\* or with the end of the other sequence is never parsed, and the verdict
\* is the one of the tags (Less / Greater) or of the exhaustion rule.
C4_OversizedPairPanics ==
    (call = "humane_order" /\ pulled # <<>>) =>
        LET last == pulled[Len(pulled)]
            ours == last[1]
            theirs == last[2]
        IN  /\ (/\ ours.tag = "Numeric"
                /\ theirs.tag = "Numeric"
                /\ (Oversized(ours) \/ Oversized(theirs)))
               => verdict = "panic"
            /\ (Oversized(ours) /\ theirs.tag = "NonNumeric") => verdict = "Less"
            /\ (Oversized(theirs) /\ ours.tag = "NonNumeric") => verdict = "Greater"
            /\ (Oversized(ours) /\ theirs.kind = "None") => verdict = "Greater"
            /\ (Oversized(theirs) /\ ours.kind = "None") => verdict = "Less"
            /\ (verdict = "panic" /\ ours.kind = "Some" /\ theirs.kind = "Some")
               => /\ ours.tag = "Numeric"
                  /\ theirs.tag = "Numeric"
                  /\ (Oversized(ours) \/ Oversized(theirs))

\* The walk reached a pair of Numeric tokens, ours within range and theirs
\* above usize::MAX, and panicked.
C4_Witness ==
    /\ call = "humane_order"
    /\ pulled # <<>>
    /\ pulled[Len(pulled)][1].tag = "Numeric"
    /\ ~Oversized(pulled[Len(pulled)][1])
    /\ Oversized(pulled[Len(pulled)][2])
    /\ verdict = "panic"

\* ------------------------------------------------------------------ C9

\* The clusters the iterator over s took for the side-th token of the
\* i-th pulled pair: those behind the ones taken for the pair before.
TakenFor(s, i, side) ==
    LET from == IF i = 1 THEN 0 ELSE pulled[i - 1][side].pos
    IN  SubSeq(Clusters(s), from + 1, pulled[i][side].pos)

\* C9 as claimed: under sorting_type a yielded token is tagged Numeric iff
\* its whole text parses as an unsigned integer, so a pair of Numeric
\* tokens that reaches the Numeric-vs-Numeric branch never fails to parse.
C9_TagIffParses ==
    /\ (call = "tokenize" /\ classifier = "sorting_type") =>
          \A i \in 1..Len(yielded) :
             (yielded[i].tag = "Numeric") <=> Parse(yielded[i].text).ok
    /\ (/\ call = "humane_order"
        /\ pulled # <<>>
        /\ pulled[Len(pulled)][1].tag = "Numeric"
        /\ pulled[Len(pulled)][2].tag = "Numeric")
       => /\ Parse(pulled[Len(pulled)][1].text).ok
          /\ Parse(pulled[Len(pulled)][2].text).ok
          /\ verdict # "panic"

\* C9 as amended: under sorting_type a yielded token is tagged Numeric iff
\* every cluster taken for it is a single ASCII digit; the text of a
\* Numeric token is this digit run, and it parses iff its value does not
\* exceed usize::MAX; a pair of Numeric tokens parses in the
\* Numeric-vs-Numeric branch iff both are within range, and unwinds
\* otherwise.
C9_NumericIffDigitRun ==
    call = "humane_order" =>
        /\ \A i \in 1..Len(pulled) : \A side \in {1, 2} :
              LET tok   == pulled[i][side]
                  taken == TakenFor(IF side = 1 THEN this ELSE other, i, side)
              IN  tok.kind = "Some" =>
                     /\ taken # <<>>
                     /\ (tok.tag = "Numeric")
                           <=> \A k \in 1..Len(taken) : IsDigitCluster(taken[k])
                     /\ tok.tag = "Numeric" =>
                           /\ tok.text = [k \in 1..Len(taken) |-> taken[k][1]]
                           /\ Parse(tok.text).ok <=> ~ExceedsUsize(tok.text)
        /\ (/\ pulled # <<>>
            /\ pulled[Len(pulled)][1].tag = "Numeric"
            /\ pulled[Len(pulled)][2].tag = "Numeric")
           => ((verdict = "panic")
                  <=> (\/ ExceedsUsize(pulled[Len(pulled)][1].text)
                       \/ ExceedsUsize(pulled[Len(pulled)][2].text)))

\* The walk pulled a NonNumeric token made of a digit and a combining mark
\* on one side and parsed a pair of Numeric tokens within range before it.
C9_Witness ==
    /\ call = "humane_order"
    /\ Len(pulled) = 2
    /\ pulled[1][1].tag = "Numeric"
    /\ pulled[1][2].tag = "Numeric"
    /\ Len(pulled[1][1].text) > 1
    /\ pulled[2][1].kind = "Some"
    /\ pulled[2][1].tag = "NonNumeric"
    /\ \E k \in 1..Len(TakenFor(this, 2, 1)) :
          IsDigitByte(TakenFor(this, 2, 1)[k][1])

\* ----------------------------------------------------------------- C10

\* C10: tokenization and comparison finish, bounded by the input: a next()
\* call that returns a token takes at least one more cluster and none a
\* second time, next() on an exhausted iterator returns None, no more
\* clusters are taken than the string has, and the loop of humane_order
\* is over after at most min(tokens(this), tokens(other)) + 1 pulled pairs.
C10_Terminates ==
    [][ /\ (call = "tokenize" /\ status = "running") =>
              /\ Len(yielded') > Len(yielded) => grapheme_iterator' > grapheme_iterator
              /\ grapheme_iterator' >= grapheme_iterator
              /\ grapheme_iterator' <= Len(Clusters(string))
              /\ grapheme_iterator = Len(Clusters(string))
                    => (status' = "done" /\ yielded' = yielded)
        /\ (call = "humane_order" /\ verdict = "running") =>
              /\ self_tokens' >= self_tokens
              /\ other_tokens' >= other_tokens
              /\ verdict' = "running" =>
                    (self_tokens' > self_tokens /\ other_tokens' > other_tokens)
              /\ Len(pulled') = Len(pulled) + 1
              /\ Len(pulled') <= Min(NumRuns("sorting_type", this),
                                     NumRuns("sorting_type", other)) + 1
              /\ verdict' = "running" =>
                    Len(pulled') <= Min(NumRuns("sorting_type", this),
                                        NumRuns("sorting_type", other))
      ]_vars

\* A comparison of two strings of two tokens each that tied twice and
\* returned on its third pulled pair.
C10_Witness ==
    /\ Finished
    /\ verdict # "panic"
    /\ Len(pulled) = 3
    /\ self_tokens = Len(Clusters(this))

\* ------------------------------------------------------------------ C1

\* C1: humane_order is a total order on all strings: a string compared
\* with itself returns Equal, Less one way is Greater the other way, and
\* Less is transitive.
C1_TotalOrder ==
    Finished =>
        /\ this = other => verdict = "Equal"
        /\ verdict = "Less" => humane_order(other, this) = "Greater"
        /\ verdict = "Less" =>
              \A c \in Strings :
                 humane_order(other, c) = "Less" => humane_order(this, c) = "Less"

\* ------------------------------------------------------------------ C3

\* C3: under sorting_type the tokens cover the string without gaps,
\* overlaps or drops, whatever the byte lengths of its clusters: next()
\* never fails, the texts yielded so far, concatenated, are the string up
\* to where the last token ends, and the whole string once next() has
\* returned None.
C3_Coverage ==
    (call = "tokenize" /\ classifier = "sorting_type") =>
        /\ status # "panic"
        /\ ConcatTexts(yielded) = SubSeq(string, 1, Len(ConcatTexts(yielded)))
        /\ status = "done" => ConcatTexts(yielded) = string

\* ------------------------------------------------------------------ C5

\* C5: with all pairs before tied, the side whose tokens run out first is
\* the lesser, and two sides running out together are Equal; so "" against
\* "" is Equal, "" against a non-empty string Less, the converse Greater.
C5_Exhaustion ==
    Finished =>
        LET n    == Len(pulled)
            exhS == Len(Clusters(this)) = (IF n = 1 THEN 0 ELSE pulled[n - 1][1].pos)
            exhO == Len(Clusters(other)) = (IF n = 1 THEN 0 ELSE pulled[n - 1][2].pos)
        IN  /\ (this = <<>> /\ other = <<>>) => verdict = "Equal"
            /\ (this = <<>> /\ other # <<>>) => verdict = "Less"
            /\ (this # <<>> /\ other = <<>>) => verdict = "Greater"
            /\ (exhS /\ exhO) => verdict = "Equal"
            /\ (exhS /\ ~exhO) => verdict = "Less"
            /\ (~exhS /\ exhO) => verdict = "Greater"

\* ------------------------------------------------------------------ C6

\* All tokens of s under classifier f from position pos on, or the panic
\* of a next() call.
RECURSIVE CollectFrom(_, _, _)
CollectFrom(s, f, pos) ==
    CHOOSE v \in
      { IF r.kind = "None" THEN [panic |-> FALSE, list |-> <<>>]
        ELSE IF r.kind = "Panic" THEN [panic |-> TRUE, list |-> <<>>]
        ELSE [rest EXCEPT !.list = <<[text |-> r.text, tag |-> r.tag]>> \o rest.list]
        : r \in {TokenIterator_next(s, f, pos)},
          rest \in {IF TokenIterator_next(s, f, pos).kind = "Some"
                    THEN CollectFrom(s, f, TokenIterator_next(s, f, pos).pos)
                    ELSE [panic |-> FALSE, list |-> <<>>]} } : TRUE

\* a and b tokenize to the same tags, with the same text at the NonNumeric
\* positions and the same parsed value at the Numeric ones.
SameUpToLeadingZeros(a, b) ==
    LET ta == CollectFrom(a, "sorting_type", 0)
        tb == CollectFrom(b, "sorting_type", 0)
    IN  /\ ~ta.panic
        /\ ~tb.panic
        /\ Len(ta.list) = Len(tb.list)
        /\ \A i \in 1..Len(ta.list) :
              /\ ta.list[i].tag = tb.list[i].tag
              /\ IF ta.list[i].tag = "Numeric"
                 THEN /\ Parse(ta.list[i].text).ok
                      /\ Parse(tb.list[i].text).ok
                      /\ Parse(ta.list[i].text).val = Parse(tb.list[i].text).val
                 ELSE ta.list[i].text = tb.list[i].text

\* C6: strings that differ only in leading zeros of their digit runs are
\* Equal under humane_order, HumaneString == is equality of the strings,
\* and a == b implies that cmp(a, b) is Equal.
C6_LeadingZeros ==
    Finished =>
        LET x == HumaneString_new(this)
            y == HumaneString_new(other)
        IN  /\ SameUpToLeadingZeros(this, other) => verdict = "Equal"
            /\ eq(x, y) <=> this = other
            /\ eq(x, y) => cmp(x, y) = "Equal"

\* ------------------------------------------------------------------ C7

\* The entries of l that equal x.
Count(l, x) == Cardinality({i \in 1..Len(l) : l[i] = x})

AllDigits(s) == s # <<>> /\ \A k \in 1..Len(s) : IsDigitByte(s[k])

\* C7: the order of HumaneString is humane_order on the data, and
\* partial_cmp is Some(cmp); so sort() leaves a permutation of any list in
\* which no element is Greater than its successor, the all-digit strings
\* ahead of the strings that start with a non-digit.
C7_SortSorts ==
    call = "sort" =>
        /\ \A i \in 1..Len(humans) : \A j \in 1..Len(humans) :
              /\ cmp(humans[i], humans[j]) = humane_order(humans[i].data, humans[j].data)
              /\ partial_cmp(humans[i], humans[j])
                    = [some |-> TRUE, ord |-> cmp(humans[i], humans[j])]
        /\ ~sorted.panic
        /\ Len(sorted.list) = Len(humans)
        /\ \A i \in 1..Len(humans) :
              Count(sorted.list, humans[i]) = Count(humans, humans[i])
        /\ \A i \in 1..(Len(sorted.list) - 1) :
              cmp(sorted.list[i], sorted.list[i + 1]) \in {"Less", "Equal"}
        /\ \A i \in 1..Len(sorted.list) : \A j \in (i + 1)..Len(sorted.list) :
              ~(/\ AllDigits(sorted.list[j].data)
                /\ sorted.list[i].data # <<>>
                /\ ~IsDigitByte(sorted.list[i].data[1]))

\* ------------------------------------------------------------------ C8

\* C8: for any string and classifier the tokens are the maximal runs of
\* equally classified clusters: next() never fails, a token is not empty,
\* each cluster in it classifies as the token's tag, consecutive tokens
\* differ in their tags; no token iff the string is empty, and one token
\* spanning the string when all its clusters classify alike.
C8_MaximalRuns ==
    call = "tokenize" =>
        /\ status # "panic"
        /\ \A i \in 1..Len(yielded) :
              /\ yielded[i].text # <<>>
              /\ \A k \in 1..Len(Clusters(yielded[i].text)) :
                    token_type(classifier, Clusters(yielded[i].text)[k]) = yielded[i].tag
        /\ \A i \in 1..(Len(yielded) - 1) : yielded[i].tag # yielded[i + 1].tag
        /\ status = "done" =>
              /\ (yielded = <<>>) <=> (string = <<>>)
              /\ NumRuns(classifier, string) = 1 =>
                    yielded = <<[text |-> string,
                                 tag |-> token_type(classifier, Clusters(string)[1])]>>

====
